---- MODULE Spec2Model ----
(***************************************************************************)
(* Model of the medicine-name extraction engine of dmd_medicine_processor: *)
(* the patch-aware batch engine of medicine_parser.py and the cached HTTP  *)
(* engine of main.py.                                                      *)
(*                                                                         *)
(* Strings are sequences of one-character strings, so that the regular     *)
(* expressions, str.replace, slicing and the JSON decoding of the source   *)
(* are computed character by character as Python computes them.  A match   *)
(* position is a 1-based index; a matcher returns the index just after the *)
(* match, or 0 when there is no match (no pattern of the source matches    *)
(* the empty string).                                                      *)
(***************************************************************************)
EXTENDS Integers, Sequences, FiniteSets, TLC

(***************************************************************************)
(* Characters                                                              *)
(***************************************************************************)
Digits == {"0", "1", "2", "3", "4", "5", "6", "7", "8", "9"}

\* \s of the re module and the default set of str.strip()
Whitespace == {" ", "\t", "\n", "\r"}

UpperToLower ==
    [c \in {"A", "B", "C", "D", "E", "F", "G", "H", "I", "J", "K", "L", "M",
            "N", "O", "P", "Q", "R", "S", "T", "U", "V", "W", "X", "Y", "Z"} |->
        CASE c = "A" -> "a" [] c = "B" -> "b" [] c = "C" -> "c" [] c = "D" -> "d"
          [] c = "E" -> "e" [] c = "F" -> "f" [] c = "G" -> "g" [] c = "H" -> "h"
          [] c = "I" -> "i" [] c = "J" -> "j" [] c = "K" -> "k" [] c = "L" -> "l"
          [] c = "M" -> "m" [] c = "N" -> "n" [] c = "O" -> "o" [] c = "P" -> "p"
          [] c = "Q" -> "q" [] c = "R" -> "r" [] c = "S" -> "s" [] c = "T" -> "t"
          [] c = "U" -> "u" [] c = "V" -> "v" [] c = "W" -> "w" [] c = "X" -> "x"
          [] c = "Y" -> "y" [] c = "Z" -> "z"]

LowerChar(c) == IF c \in DOMAIN UpperToLower THEN UpperToLower[c] ELSE c

\* str.lower()
Lower(s) == SubSeq([i \in 1..Len(s) |-> LowerChar(s[i])], 1, Len(s))

\* s[i-1:] in Python terms: the suffix that starts at 1-based index i
From(s, i) == SubSeq(s, i, Len(s))

(***************************************************************************)
(* Matching primitives                                                     *)
(***************************************************************************)
\* F applied to the value of x, the value being computed once (LET v == x IN
\* F(v), with x evaluated where it is bound rather than at each use of v)
Bind(x, F(_)) == CHOOSE r \in {F(v) : v \in {x}} : TRUE

\* a literal at index i, compared exactly (patterns compiled without flags,
\* str.replace, the in operator)
MatchLit(s, i, lit) ==
    IF /\ i >= 1
       /\ i + Len(lit) - 1 <= Len(s)
       /\ \A k \in 1..Len(lit) : s[i + k - 1] = lit[k]
    THEN i + Len(lit) ELSE 0

\* a lower-case literal at index i under re.IGNORECASE
MatchLitI(s, i, lit) ==
    IF /\ i >= 1
       /\ i + Len(lit) - 1 <= Len(s)
       /\ \A k \in 1..Len(lit) : LowerChar(s[i + k - 1]) = lit[k]
    THEN i + Len(lit) ELSE 0

\* index just after the longest run of characters of class cls from index i
SpanClass(s, i, cls) ==
    CHOOSE e \in i..(Len(s) + 1) :
        /\ \A k \in i..(e - 1) : s[k] \in cls
        /\ e <= Len(s) => s[e] \notin cls

\* \d+(?:\.\d+)?
MatchNumber(s, i) ==
    Bind(SpanClass(s, i, Digits), LAMBDA e :
        IF e = i THEN 0
        ELSE IF e <= Len(s) /\ s[e] = "."
             THEN Bind(SpanClass(s, e + 1, Digits), LAMBDA f : IF f > e + 1 THEN f ELSE e)
             ELSE e)

\* the first non-zero entry of ends, or 0: the alternative of an alternation
\* that matches, the alternatives being tried in order
FirstNonZero(ends) ==
    IF \A k \in 1..Len(ends) : ends[k] = 0 THEN 0
    ELSE ends[CHOOSE k \in 1..Len(ends) : ends[k] # 0 /\ \A j \in 1..(k - 1) : ends[j] = 0]

\* alts[k] at index i, and after it the literal follow (<<>>: nothing required)
MatchAltAt(s, i, alts, follow, k) ==
    Bind(MatchLitI(s, i, alts[k]), LAMBDA e : IF e = 0 THEN 0 ELSE MatchLitI(s, e, follow))

\* the first alternative of alts (tried in order) that matches at i and after
\* which the literal follow matches too
MatchAltI(s, i, alts, follow) ==
    IF \A k \in 1..Len(alts) : MatchAltAt(s, i, alts, follow, k) = 0 THEN 0
    ELSE MatchAltAt(s, i, alts, follow,
                    CHOOSE k \in 1..Len(alts) :
                        /\ MatchAltAt(s, i, alts, follow, k) # 0
                        /\ \A j \in 1..(k - 1) : MatchAltAt(s, i, alts, follow, j) = 0)

\* s contains sub (Python's `sub in s`)
Contains(s, sub) == \E i \in 1..(Len(s) + 1) : MatchLit(s, i, sub) # 0

\* str.lstrip(cls), str.rstrip(cls)
LStrip(s, cls) == SubSeq(s, SpanClass(s, 1, cls), Len(s))

RStrip(s, cls) ==
    SubSeq(s, 1, CHOOSE e \in 0..Len(s) :
                     /\ \A k \in (e + 1)..Len(s) : s[k] \in cls
                     /\ e >= 1 => s[e] \notin cls)

\* str.strip()
Strip(s) == Bind(LStrip(s, Whitespace), LAMBDA t : RStrip(t, Whitespace))

\* re.search: the leftmost index from i on at which the matcher M matches, as
\* <<start, end>>, or <<0, 0>>
Search(M(_, _), s, i) ==
    IF \A j \in i..Len(s) : M(s, j) = 0 THEN <<0, 0>>
    ELSE Bind(CHOOSE j \in i..Len(s) : M(s, j) # 0 /\ \A h \in i..(j - 1) : M(s, h) = 0,
              LAMBDA j : <<j, M(s, j)>>)

\* match.group(0) if match else ""
Group0(s, m) == IF m[1] = 0 THEN <<>> ELSE SubSeq(s, m[1], m[2] - 1)

(***************************************************************************)
(* The compiled patterns of MedicineGroqParser.__init__                    *)
(***************************************************************************)
\* units of the ratio form, in the order of the alternation
RatioUnits ==
    << <<"m", "i", "c", "r", "o", "g", "r", "a", "m", "s">>, <<"m", "c", "g">>,
       <<"m", "g">>, <<"g">>, <<"m", "l">>, <<"%">> >>

\* units of the bare form, in the order of the alternation
BareUnits ==
    << <<"m", "i", "c", "r", "o", "g", "r", "a", "m", "s">>, <<"m", "c", "g">>,
       <<"m", "g">>, <<"g">>, <<"m", "l">> >>

\* ml|l, the optional unit after the slash
DenominatorUnits == << <<"m", "l">>, <<"l">> >>

\* \s*(?:ml|l)? from index w on: it always matches, at least the whitespace
StrengthRatioTail(s, w) ==
    Bind(SpanClass(s, w, Whitespace), LAMBDA w2 :
        Bind(MatchAltI(s, w2, DenominatorUnits, <<>>), LAMBDA v : IF v # 0 THEN v ELSE w2))

\* (\d+(?:\.\d+)?)\s*(?:micrograms|mcg|mg|g|ml|%)/(?:\d+(?:\.\d+)?)?\s*(?:ml|l)?
StrengthRatioAt(s, i) ==
    Bind(MatchNumber(s, i), LAMBDA n :
        IF n = 0 THEN 0
        ELSE Bind(SpanClass(s, n, Whitespace), LAMBDA w :
             Bind(MatchAltI(s, w, RatioUnits, <<"/">>), LAMBDA u :
                 IF u = 0 THEN 0
                 ELSE Bind(MatchNumber(s, u), LAMBDA n2 :
                          StrengthRatioTail(s, IF n2 # 0 THEN n2 ELSE u)))))

\* (\d+(?:\.\d+)?)\s*(?:micrograms|mcg|mg|g|ml)
StrengthBareAt(s, i) ==
    Bind(MatchNumber(s, i), LAMBDA n :
        IF n = 0 THEN 0
        ELSE Bind(SpanClass(s, n, Whitespace), LAMBDA w : MatchAltI(s, w, BareUnits, <<>>)))

\* self.strength_pattern, matched at index i: the ratio form, else the bare form
strength_pattern(s, i) ==
    Bind(<<StrengthRatioAt(s, i), StrengthBareAt(s, i)>>, FirstNonZero)

\* word followed by an optional s: tablets?, capsules?, ...
MatchWordS(s, i, w) ==
    Bind(MatchLitI(s, i, w), LAMBDA e :
        IF e = 0 THEN 0
        ELSE IF e <= Len(s) /\ LowerChar(s[e]) = "s" THEN e + 1 ELSE e)

\* a\s+ : the literal a and at least one whitespace character after it
MatchLitSpaces(s, i, a) ==
    Bind(MatchLitI(s, i, a), LAMBDA p :
        IF p = 0 THEN 0
        ELSE Bind(SpanClass(s, p, Whitespace), LAMBDA q : IF q > p THEN q ELSE 0))

\* (?:pre\s+)?words?
MatchPrefixedS(s, i, pre, w) ==
    Bind(MatchLitSpaces(s, i, pre), LAMBDA q :
        Bind(IF q # 0 THEN MatchWordS(s, q, w) ELSE 0, LAMBDA withPre :
            IF withPre # 0 THEN withPre ELSE MatchWordS(s, i, w)))

\* a\s+b
MatchSpaced(s, i, a, b) ==
    Bind(MatchLitSpaces(s, i, a), LAMBDA q : IF q # 0 THEN MatchLitI(s, q, b) ELSE 0)

\* self.formulation_pattern, matched at index i: the alternatives in order
formulation_pattern(s, i) ==
    Bind(<<
        MatchWordS(s, i, <<"t", "a", "b", "l", "e", "t">>),
        MatchWordS(s, i, <<"c", "a", "p", "s", "u", "l", "e">>),
        MatchPrefixedS(s, i, <<"p", "r", "e", "-", "f", "i", "l", "l", "e", "d">>,
                       <<"s", "y", "r", "i", "n", "g", "e">>),
        MatchPrefixedS(s, i, <<"t", "r", "a", "n", "s", "d", "e", "r", "m", "a", "l">>,
                       <<"p", "a", "t", "c", "h", "e">>),
        MatchSpaced(s, i, <<"o", "r", "a", "l">>,
                    <<"s", "o", "l", "u", "t", "i", "o", "n">>),
        MatchLitI(s, i, <<"s", "u", "s", "p", "e", "n", "s", "i", "o", "n">>),
        MatchLitI(s, i, <<"c", "r", "e", "a", "m">>),
        MatchLitI(s, i, <<"o", "i", "n", "t", "m", "e", "n", "t">>),
        MatchLitI(s, i, <<"i", "n", "j", "e", "c", "t", "i", "o", "n">>),
        MatchLitI(s, i, <<"p", "o", "w", "d", "e", "r">>),
        MatchLitI(s, i, <<"l", "i", "q", "u", "i", "d">>),
        MatchWordS(s, i, <<"a", "m", "p", "o", "u", "l", "e">>),
        MatchWordS(s, i, <<"b", "o", "t", "t", "l", "e">>) >>, FirstNonZero)

\* day|days|hour|hours|hr|hrs, in the order of the alternation
DurationUnits ==
    << <<"d", "a", "y">>, <<"d", "a", "y", "s">>, <<"h", "o", "u", "r">>,
       <<"h", "o", "u", "r", "s">>, <<"h", "r">>, <<"h", "r", "s">> >>

\* self.patch_duration_pattern, matched at index i
patch_duration_pattern(s, i) ==
    Bind(MatchNumber(s, i), LAMBDA n :
        IF n = 0 THEN 0
        ELSE Bind(SpanClass(s, n, Whitespace), LAMBDA w : MatchAltI(s, w, DurationUnits, <<>>)))

\* 'patch' in medicine_string.lower()
IsPatch(s) == Bind(Lower(s), LAMBDA t : Contains(t, <<"p", "a", "t", "c", "h">>))

(***************************************************************************)
(* clean_duration                                                          *)
(***************************************************************************)
\* re.match(r'(\d+)\s*(?:day|days|hour|hours|hr|hrs)', duration): the index
\* just after group(1), or 0 when the pattern does not match at the start
CleanDurationMatch(d) ==
    Bind(SpanClass(d, 1, Digits), LAMBDA n :
        IF n = 1 THEN 0
        ELSE Bind(SpanClass(d, n, Whitespace), LAMBDA w :
                 IF MatchAltI(d, w, DurationUnits, <<>>) # 0 THEN n ELSE 0))

\* the return statements of clean_duration, d being duration.lower().strip()
\* and n the index just after match.group(1)
CleanDurationResult(d, n) ==
    IF n = 0 THEN <<>>
    ELSE IF \/ Contains(d, <<"h", "o", "u", "r">>)
            \/ Contains(d, <<"h", "r">>)
         THEN SubSeq(d, 1, n - 1) \o <<" ", "h", "o", "u", "r", "s">>
         ELSE SubSeq(d, 1, n - 1) \o <<" ", "d", "a", "y", "s">>

clean_duration(duration) ==
    Bind(duration, LAMBDA raw :
        IF raw = <<>> THEN <<>>
        ELSE Bind(Strip(Lower(raw)), LAMBDA d :
                 Bind(CleanDurationMatch(d), LAMBDA n : CleanDurationResult(d, n))))

(***************************************************************************)
(* Name clean-up of extract_components_regex                               *)
(***************************************************************************)
\* name.replace(old, "") from index i on: every non-overlapping occurrence,
\* left to right
RECURSIVE RemoveFrom(_, _, _)
RemoveFrom(s, i, old) ==
    IF i > Len(s) THEN <<>>
    ELSE IF MatchLit(s, i, old) # 0
         THEN RemoveFrom(s, i + Len(old), old)
    ELSE <<s[i]>> \o RemoveFrom(s, i + 1, old)

\* name.replace(old, "")
Remove(s, old) == RemoveFrom(s, 1, old)

\* re.sub(r'^Generic\s+', '', name)
StripGeneric(s) ==
    Bind(MatchLit(s, 1, <<"G", "e", "n", "e", "r", "i", "c">>), LAMBDA p :
        IF p = 0 THEN s
        ELSE Bind(SpanClass(s, p, Whitespace), LAMBDA q : IF q > p THEN From(s, q) ELSE s))

\* \s+sterile\s+ matched at index i
SterileAt(s, i) ==
    Bind(SpanClass(s, i, Whitespace), LAMBDA a :
        IF a = i THEN 0
        ELSE Bind(MatchLit(s, a, <<"s", "t", "e", "r", "i", "l", "e">>), LAMBDA b :
                 IF b = 0 THEN 0
                 ELSE Bind(SpanClass(s, b, Whitespace), LAMBDA c : IF c > b THEN c ELSE 0)))

\* re.sub(r'\s+sterile\s+', ' ', name) from index i on: the matches are found
\* left to right, each search starting where the previous match ended
RECURSIVE SubSterileFrom(_, _)
SubSterileFrom(s, i) ==
    IF i > Len(s) THEN <<>>
    ELSE Bind(SterileAt(s, i), LAMBDA e :
             IF e # 0 THEN <<" ">> \o SubSterileFrom(s, e)
             ELSE <<s[i]>> \o SubSterileFrom(s, i + 1))

SubSterile(s) == SubSterileFrom(s, 1)

\* re.sub(r'\s+', ' ', name) from index i on
RECURSIVE CollapseSpacesFrom(_, _)
CollapseSpacesFrom(s, i) ==
    IF i > Len(s) THEN <<>>
    ELSE IF s[i] \in Whitespace
         THEN <<" ">> \o CollapseSpacesFrom(s, SpanClass(s, i, Whitespace))
    ELSE <<s[i]>> \o CollapseSpacesFrom(s, i + 1)

CollapseSpaces(s) == CollapseSpacesFrom(s, 1)

\* name.strip().rstrip(" -,.")
TrimName(s) == Bind(Strip(s), LAMBDA t : RStrip(t, {" ", "-", ",", "."}))

\* the name of extract_components_regex, from the raw string and the two matches
CleanName(medicine_string, strength, formulation) ==
    Bind(IF strength # <<>> THEN Remove(medicine_string, strength) ELSE medicine_string,
         LAMBDA n1 :
    Bind(IF formulation # <<>> THEN Remove(n1, formulation) ELSE n1, LAMBDA n2 :
    Bind(StripGeneric(n2), LAMBDA n3 :
    Bind(SubSterile(n3), LAMBDA n4 :
    Bind(CollapseSpaces(n4), TrimName)))))

\* strength_match.group(0) if strength_match else ""
StrengthOf(medicine_string) ==
    Bind(Search(strength_pattern, medicine_string, 1),
         LAMBDA m : Group0(medicine_string, m))

\* formulation_match.group(0) if formulation_match else ""
FormulationOf(medicine_string) ==
    Bind(Search(formulation_pattern, medicine_string, 1),
         LAMBDA m : Group0(medicine_string, m))

\* explicit_duration.group(0), "" standing for no match
ExplicitDurationOf(medicine_string) ==
    Bind(Search(patch_duration_pattern, medicine_string, 1),
         LAMBDA m : Group0(medicine_string, m))

(***************************************************************************)
(* The model's reply: fence stripping and json.loads                       *)
(*                                                                         *)
(* JsonLoads decodes the JSON texts the replies of this model are drawn    *)
(* from: an object whose members are strings, a string, and the empty      *)
(* array, with JSON's insignificant whitespace.  Escapes, numbers, literals*)
(* and nesting are outside the replies' alphabet.  A Python dict is a      *)
(* function from keys (strings) to values; {} is the empty function.       *)
(***************************************************************************)
JsonWs == {" ", "\t", "\n", "\r"}

\* index of the first character of stop from index i on, or Len(s) + 1
SpanUntil(s, i, stop) ==
    CHOOSE e \in i..(Len(s) + 1) :
        /\ \A k \in i..(e - 1) : s[k] \notin stop
        /\ e <= Len(s) => s[e] \in stop

\* a JSON string at index i: <<index after it, its characters>>, or <<0, "">>
JsonString(s, i) ==
    IF i <= Len(s) /\ s[i] = "\""
    THEN Bind(SpanUntil(s, i + 1, {"\"", "\\", "\n", "\r", "\t"}), LAMBDA e :
             IF e <= Len(s) /\ s[e] = "\"" THEN <<e + 1, SubSeq(s, i + 1, e - 1)>>
             ELSE <<0, <<>>>>)
    ELSE <<0, <<>>>>

\* a JSON string after optional whitespace from index i on
JsonStringWs(s, i) == Bind(SpanClass(s, i, JsonWs), LAMBDA j : JsonString(s, j))

\* one member "key" : "value" from index i on, whitespace around its parts
\* skipped: <<index of what follows it, key, value>>, or <<0, "", "">>
JsonMember(s, i) ==
    Bind(JsonStringWs(s, i), LAMBDA k :
        IF k[1] = 0 THEN <<0, <<>>, <<>>>>
        ELSE Bind(SpanClass(s, k[1], JsonWs), LAMBDA c :
             IF c > Len(s) \/ s[c] # ":" THEN <<0, <<>>, <<>>>>
             ELSE Bind(JsonStringWs(s, c + 1), LAMBDA v :
                  IF v[1] = 0 THEN <<0, <<>>, <<>>>>
                  ELSE Bind(SpanClass(s, v[1], JsonWs), LAMBDA n :
                           IF n > Len(s) THEN <<0, <<>>, <<>>>> ELSE <<n, k[2], v[2]>>))))

\* the members of an object from index i on, added to acc (a later duplicate
\* key wins): <<index after the closing brace, dict>>, or <<0, acc>>
RECURSIVE JsonMembers(_, _, _)
JsonMembers(s, i, acc) ==
    Bind(JsonMember(s, i), LAMBDA m :
        IF m[1] = 0 THEN <<0, acc>>
        ELSE Bind((m[2] :> m[3]) @@ acc, LAMBDA d :
                 IF s[m[1]] = "}" THEN <<m[1] + 1, d>>
                 ELSE IF s[m[1]] = "," THEN Bind(m[1] + 1, LAMBDA j : JsonMembers(s, j, d))
                 ELSE <<0, acc>>))

JSONDecodeError == [kind |-> "JSONDecodeError", value |-> <<>>]

\* nothing but whitespace from index e on (e = 0: the value did not decode)
JsonAtEnd(s, e) == e # 0 /\ SpanClass(s, e, JsonWs) > Len(s)

\* the object that opens at index i: {} or its members
JsonObject(s, i) ==
    Bind(SpanClass(s, i + 1, JsonWs), LAMBDA j :
        IF j <= Len(s) /\ s[j] = "}" THEN <<j + 1, <<>>>>
        ELSE JsonMembers(s, i + 1, <<>>))

\* the value that starts at index i, and nothing after it
JsonValue(s, i) ==
    IF i > Len(s) THEN JSONDecodeError
    ELSE IF s[i] = "{"
         THEN Bind(JsonObject(s, i), LAMBDA m :
                  IF JsonAtEnd(s, m[1]) THEN [kind |-> "dict", value |-> m[2]]
                  ELSE JSONDecodeError)
    ELSE IF s[i] = "\""
         THEN Bind(JsonString(s, i), LAMBDA q :
                  IF JsonAtEnd(s, q[1]) THEN [kind |-> "str", value |-> q[2]]
                  ELSE JSONDecodeError)
    ELSE Bind(MatchLit(s, i, <<"[", "]">>), LAMBDA e :
             IF JsonAtEnd(s, e) THEN [kind |-> "list", value |-> <<>>]
             ELSE JSONDecodeError)

\* json.loads(response_text)
JsonLoads(s) == Bind(s, LAMBDA t : Bind(SpanClass(t, 1, JsonWs), LAMBDA i : JsonValue(t, i)))

\* the grave accent U+0060, which a TLA+ string literal cannot hold: the one
\* element of a string that is written by name
GraveAccent == "U+0060"

\* the Markdown code fence that opens a JSON block
Fence == <<GraveAccent, GraveAccent, GraveAccent, "j", "s", "o", "n">>

\* if response_text.startswith(Fence): response_text = response_text[7:-3]
StripFence(response_text) ==
    IF MatchLit(response_text, 1, Fence) # 0
    THEN SubSeq(response_text, 8, Len(response_text) - 3)
    ELSE response_text

\* the dict keys the engine reads and writes
kName == <<"n", "a", "m", "e">>
kStrength == <<"s", "t", "r", "e", "n", "g", "t", "h">>
kFormulation == <<"f", "o", "r", "m", "u", "l", "a", "t", "i", "o", "n">>
kDuration == <<"d", "u", "r", "a", "t", "i", "o", "n">>
kVPID == <<"V", "P", "I", "D">>
kOriginalName == <<"o", "r", "i", "g", "i", "n", "a", "l", "_", "n", "a", "m", "e">>

\* dict.get(key) with None read as "": only its truth value is used
Get(d, key) == IF key \in DOMAIN d THEN d[key] ELSE <<>>

\* d[key] = value
Put(d, key, value) == (key :> value) @@ d

(***************************************************************************)
(* extract_components of medicine_parser.py, by its parts                  *)
(***************************************************************************)
\* what a request to the model service ends in: an exception of the client
\* (kind is its class) or a completion whose message content is text
Content(text) == [kind |-> "content", text |-> text]
Raises(class) == [kind |-> class, text |-> <<>>]
NoOutcome == [kind |-> "none", text |-> <<>>]

\* response_text stripped of its fence and decoded; an exception of the call
\* stands for itself
ParseReply(outcome) ==
    IF outcome.kind = "content" THEN JsonLoads(StripFence(outcome.text))
    ELSE [kind |-> outcome.kind, value |-> <<>>]

\* the inner try block runs to its end: the call returned, json.loads returned
\* a dict (on a str or a list, result.get raises AttributeError)
TakesMergePath(outcome) == ParseReply(outcome).kind = "dict"

\* if not result.get(key): result[key] = value
PutIfEmpty(result, key, value) ==
    IF Get(result, key) = <<>> THEN Put(result, key, value) ELSE result

\* the merge with the patterns taking precedence over the model's values
MergePatternsOverride(medicine_string, result) ==
    Put(Put(result, kStrength, StrengthOf(medicine_string)),
        kFormulation, FormulationOf(medicine_string))

\* "Validate and clean results": an absent or empty strength or formulation is
\* filled from the pattern
MergePatterns(medicine_string, result) ==
    Bind(result, LAMBDA r0 :
        Bind(PutIfEmpty(r0, kStrength, StrengthOf(medicine_string)), LAMBDA r1 :
            PutIfEmpty(r1, kFormulation, FormulationOf(medicine_string))))

\* the regex extraction refusing an empty input: it returns an empty dict
RegexComponentsRejectEmpty(medicine_string) ==
    IF medicine_string = <<>> THEN <<>>
    ELSE Bind(StrengthOf(medicine_string), LAMBDA strength :
         Bind(FormulationOf(medicine_string), LAMBDA formulation :
             (kName :> CleanName(medicine_string, strength, formulation))
             @@ (kStrength :> strength) @@ (kFormulation :> formulation)))

\* the result dict of extract_components_regex before its patch handling
RegexComponents(medicine_string) ==
    Bind(StrengthOf(medicine_string), LAMBDA strength :
    Bind(FormulationOf(medicine_string), LAMBDA formulation :
        (kName :> CleanName(medicine_string, strength, formulation))
        @@ (kStrength :> strength) @@ (kFormulation :> formulation)))

\* extract_components without its except branches: whatever the reply is, the
\* patterns are merged into what it decoded to (nothing, when it did not decode)
BaseComponentsNoFallback(medicine_string, outcome) ==
    Bind(ParseReply(outcome), LAMBDA reply :
        MergePatterns(medicine_string, IF reply.kind = "dict" THEN reply.value ELSE <<>>))

\* the dict extract_components works on once the primary request has ended
BaseComponents(medicine_string, outcome) ==
    Bind(ParseReply(outcome), LAMBDA reply :
        IF reply.kind = "dict"
        THEN MergePatterns(medicine_string, reply.value)
        ELSE RegexComponents(medicine_string))

\* the patch handling with the model's duration looked at before the text's
MergeDurationTierModelFirst(medicine_string, result) ==
    IF ~IsPatch(medicine_string) THEN "none"
    ELSE IF Get(result, kDuration) # <<>> THEN "model"
    ELSE IF ExplicitDurationOf(medicine_string) # <<>> THEN "explicit"
    ELSE "query"

\* "Handle patch duration" of extract_components: the branch taken
MergeDurationTier(medicine_string, result) ==
    IF ~IsPatch(medicine_string) THEN "none"
    ELSE IF ExplicitDurationOf(medicine_string) # <<>> THEN "explicit"
    ELSE IF Get(result, kDuration) = <<>> THEN "query"
    ELSE "model"

\* the regex extractor asking the model for every patch, explicit duration or not
RegexDurationTierAlwaysQuery(medicine_string) ==
    IF ~IsPatch(medicine_string) THEN "none" ELSE "query"

\* "For patches, try to get duration" of extract_components_regex: the branch
RegexDurationTier(medicine_string) ==
    IF ~IsPatch(medicine_string) THEN "none"
    ELSE IF ExplicitDurationOf(medicine_string) # <<>> THEN "explicit"
    ELSE "query"

DurationTier(medicine_string, outcome) ==
    Bind(ParseReply(outcome), LAMBDA reply :
        IF reply.kind = "dict"
        THEN Bind(MergePatterns(medicine_string, reply.value),
                  LAMBDA result : MergeDurationTier(medicine_string, result))
        ELSE RegexDurationTier(medicine_string))

\* result['duration'] = self.clean_duration(explicit_duration.group(0))
WithExplicitDuration(medicine_string, result) ==
    Put(result, kDuration, clean_duration(ExplicitDurationOf(medicine_string)))

\* get_patch_duration_from_llm, from what its request ended in
get_patch_duration_from_llm(outcome) ==
    IF outcome.kind # "content" THEN <<>>
    ELSE Bind(Lower(Strip(outcome.text)), LAMBDA duration :
             IF duration = <<"u", "n", "k", "n", "o", "w", "n">> THEN <<>>
             ELSE clean_duration(duration))

\* extract_components_regex, from what its duration request (if it sends
\* one) ends in
extract_components_regex(medicine_string, outcome) ==
    Bind(RegexComponents(medicine_string), LAMBDA result :
    Bind(RegexDurationTier(medicine_string), LAMBDA tier :
        IF tier = "explicit" THEN WithExplicitDuration(medicine_string, result)
        ELSE IF tier = "query"
             THEN Put(result, kDuration, get_patch_duration_from_llm(outcome))
        ELSE result))

\* the fields process_medicine_list reads with components[...]
RequiredKeys == <<kName, kStrength, kFormulation>>

\* the first key whose subscription raises KeyError, or "" when none does
MissingKey(components) ==
    IF \A k \in 1..Len(RequiredKeys) : RequiredKeys[k] \in DOMAIN components THEN <<>>
    ELSE RequiredKeys[CHOOSE k \in 1..Len(RequiredKeys) :
                          /\ RequiredKeys[k] \notin DOMAIN components
                          /\ \A j \in 1..(k - 1) : RequiredKeys[j] \in DOMAIN components]

\* str(KeyError(key)): the key between apostrophes
KeyErrorText(key) == <<"'">> \o key \o <<"'">>

\* the five fields every entry has
EntryFields(medicine, comps) ==
    (kVPID :> medicine.VPID) @@ (kOriginalName :> medicine.NM)
    @@ (kName :> comps[kName]) @@ (kStrength :> comps[kStrength])
    @@ (kFormulation :> comps[kFormulation])

\* processed_medicine with the duration copied whenever the components have one
ProcessedMedicineAnyDuration(medicine, comps) ==
    IF kDuration \in DOMAIN comps
    THEN Put(EntryFields(medicine, comps), kDuration, comps[kDuration])
    ELSE EntryFields(medicine, comps)

\* processed_medicine of process_medicine_list
ProcessedMedicine(medicine, comps) ==
    IF IsPatch(medicine.NM)
    THEN Put(EntryFields(medicine, comps), kDuration, Get(comps, kDuration))
    ELSE EntryFields(medicine, comps)

(***************************************************************************)
(* Inputs and outcomes the model draws from                                *)
(***************************************************************************)
MaxBatch == 2

nEmpty == <<>>

\* Generic Aspirin 325mg tablets
nAspirin ==
    <<"G", "e", "n", "e", "r", "i", "c", " ", "A", "s", "p", "i", "r", "i",
     "n", " ", "3", "2", "5", "m", "g", " ", "t", "a", "b", "l", "e", "t",
     "s">>

\* Fentanyl 72 hour transdermal patch
nFentanyl ==
    <<"F", "e", "n", "t", "a", "n", "y", "l", " ", "7", "2", " ", "h", "o",
     "u", "r", " ", "t", "r", "a", "n", "s", "d", "e", "r", "m", "a", "l",
     " ", "p", "a", "t", "c", "h">>

\* Nicotine 7mg Patches
nNicotine ==
    <<"N", "i", "c", "o", "t", "i", "n", "e", " ", "7", "m", "g", " ", "P",
     "a", "t", "c", "h", "e", "s">>

\* Morphine 10mg/5ml oral solution
nMorphine ==
    <<"M", "o", "r", "p", "h", "i", "n", "e", " ", "1", "0", "m", "g", "/",
     "5", "m", "l", " ", "o", "r", "a", "l", " ", "s", "o", "l", "u", "t",
     "i", "o", "n">>

RawNames == {nEmpty, nAspirin, nFentanyl, nNicotine, nMorphine}

VpidDigits == <<"1", "2", "3", "4", "5", "6", "7", "8", "9">>

\* the identifier of the k-th item of a batch
VpidOf(k) == <<"V", VpidDigits[k]>>

\* the input lists: up to MaxBatch items {"NM": ..., "VPID": ...}
Batches ==
    UNION {{[k \in 1..n |-> [NM |-> f[k], VPID |-> VpidOf(k)]] : f \in [1..n -> RawNames]} :
           n \in 0..MaxBatch}

\* {"name":"A","strength":"9g","formulation":"gel"}
rFull ==
    <<"{", "\"", "n", "a", "m", "e", "\"", ":", "\"", "A", "\"", ",", "\"",
     "s", "t", "r", "e", "n", "g", "t", "h", "\"", ":", "\"", "9", "g",
     "\"", ",", "\"", "f", "o", "r", "m", "u", "l", "a", "t", "i", "o",
     "n", "\"", ":", "\"", "g", "e", "l", "\"", "}">>

\* {"name":"A"}
rNameOnly ==
    <<"{", "\"", "n", "a", "m", "e", "\"", ":", "\"", "A", "\"", "}">>

\* {"name":"A","strength":"","duration":"About 3 Days"}
rDuration ==
    <<"{", "\"", "n", "a", "m", "e", "\"", ":", "\"", "A", "\"", ",", "\"",
     "s", "t", "r", "e", "n", "g", "t", "h", "\"", ":", "\"", "\"", ",",
     "\"", "d", "u", "r", "a", "t", "i", "o", "n", "\"", ":", "\"", "A",
     "b", "o", "u", "t", " ", "3", " ", "D", "a", "y", "s", "\"", "}">>

\* {"strength":"9g"}
rNoName ==
    <<"{", "\"", "s", "t", "r", "e", "n", "g", "t", "h", "\"", ":", "\"",
     "9", "g", "\"", "}">>

\* a fenced block: the fence with json, a newline, {"name":"A"}, a newline, the fence
rFenced ==
    <<GraveAccent, GraveAccent, GraveAccent, "j", "s", "o", "n", "\n", "{",
     "\"", "n", "a", "m", "e", "\"", ":", "\"", "A", "\"", "}", "\n",
     GraveAccent, GraveAccent, GraveAccent>>

\* Sorry
rProse ==
    <<"S", "o", "r", "r", "y">>

\* []
rList ==
    <<"[", "]">>

\* what the primary request can end in
ClientErrors == {"APIConnectionError", "APITimeoutError", "RateLimitError"}

ReplyTexts == {rFull, rNameOnly, rDuration, rNoName, rFenced, rProse, rList}

PrimaryOutcomes == {Raises(e) : e \in ClientErrors} \cup {Content(r) : r \in ReplyTexts}

\* 7 days
dSeven ==
    <<"7", " ", "d", "a", "y", "s">>

\* Unknown
dUnknown ==
    <<"U", "n", "k", "n", "o", "w", "n">>

\* 24 HOURS
dHours ==
    <<"2", "4", " ", "H", "O", "U", "R", "S">>

\* what the duration request can end in
DurationOutcomes ==
    {Raises("APITimeoutError")} \cup {Content(r) : r \in {dSeven, dUnknown, dHours}}

\* generic aspirin 325mg tablets
nAspirinLower ==
    <<"g", "e", "n", "e", "r", "i", "c", " ", "a", "s", "p", "i", "r", "i",
     "n", " ", "3", "2", "5", "m", "g", " ", "t", "a", "b", "l", "e", "t",
     "s">>

\* the names the HTTP requests carry: two of them differ in case only
HttpNames == {nAspirin, nAspirinLower, nNicotine, nMorphine}

HttpOutcomes == {Raises("APIConnectionError"), Content(rFull), Content(rNoName)}

\* what components holds once the primary request of extract_components has
\* ended: the merged or the regex dict, with the explicit duration of a patch
PrimaryResult(medicine_string, outcome) ==
    Bind(BaseComponents(medicine_string, outcome), LAMBDA base :
        IF DurationTier(medicine_string, outcome) = "explicit"
        THEN WithExplicitDuration(medicine_string, base)
        ELSE base)

\* the engine's pure steps, tabulated over the inputs and outcomes above: what
\* extract_components holds when its primary request has ended, the branch
\* its patch handling takes, the path ("merge" or "regex") the outcome leads
\* to, and what the extract_components of main.py returns
ExtractionResult ==
    [ms \in RawNames, outcome \in PrimaryOutcomes |-> PrimaryResult(ms, outcome)]

ExtractionTier ==
    [ms \in RawNames, outcome \in PrimaryOutcomes |-> DurationTier(ms, outcome)]

ExtractionPath ==
    [outcome \in PrimaryOutcomes |-> IF TakesMergePath(outcome) THEN "merge" ELSE "regex"]

HttpExtraction ==
    [ms \in HttpNames, outcome \in HttpOutcomes |-> BaseComponents(ms, outcome)]


(***************************************************************************)
(* State                                                                   *)
(***************************************************************************)
VARIABLES
    medicines,             \* the input list of process_medicine_list
    idx,                   \* 1-based position of the for loop
    processed_medicines,   \* the output list built so far
    pc,                    \* where the engine stands
    components,            \* the dict of the extract_components call under way
    cur,                   \* what the requests of the item under way ended in
    requests,              \* the requests sent to the model service, in order
    log,                   \* per item extracted: input, path, returned dict
    error,                 \* the exception that left process_medicine_list
    cache,                 \* lru_cache of main.py's extract_components, most
                           \* recently used entry first
    recency,               \* every string extract_components was called with,
                           \* most recently used first
    response,              \* the last HTTP response of main.py
    call,                  \* the function of the parser called on its own, with
                           \* its argument
    result                 \* what that call returned

vars == <<medicines, idx, processed_medicines, pc, components, cur, requests, log, error,
          cache, recency, response, call, result>>

\* the state of the HTTP engine, which the batch engine does not have
httpVars == <<cache, recency, response>>

\* the state of a call of one function of the parser on its own, which neither
\* engine has
textVars == <<call, result>>

NoCall == [fn |-> "none", arg |-> <<>>]

NoResult == [kind |-> "none", value |-> <<>>]

NoResponse == [status |-> 0, detail |-> <<>>, medicines |-> <<>>]

NoError == [type |-> "none", text |-> <<>>]

Init ==
    /\ medicines \in Batches
    /\ idx = 1
    /\ processed_medicines = <<>>
    /\ pc = "loop"
    /\ components = <<>>
    /\ cur = [primary |-> NoOutcome, duration |-> NoOutcome]
    /\ requests = <<>>
    /\ log = <<>>
    /\ error = NoError
    /\ cache = <<>>
    /\ recency = <<>>
    /\ response = NoResponse
    /\ call = NoCall
    /\ result = NoResult

NM == medicines[idx].NM

\* what is remembered of an extract_components call once it has returned: the
\* path it took ("merge" or "regex"), whether it sent the duration request, and
\* the dict it returned
LogEntry(comps) ==
    [NM |-> NM,
     path |-> ExtractionPath[cur.primary],
     queried |-> cur.duration # NoOutcome,
     components |-> comps]

(***************************************************************************)
(* process_medicine_list and the extract_components call of each item      *)
(***************************************************************************)
\* the loop takes the next item: extract_components sends the primary request
CallExtract ==
    /\ pc = "loop"
    /\ idx <= Len(medicines)
    /\ requests' = Append(requests, [kind |-> "extract", medicine_string |-> NM])
    /\ cur' = [primary |-> NoOutcome, duration |-> NoOutcome]
    /\ components' = <<>>
    /\ pc' = "primary"
    /\ UNCHANGED <<medicines, idx, processed_medicines, log, error>>
    /\ UNCHANGED httpVars
    /\ UNCHANGED textVars

\* the primary request ends in outcome: the merge path or the regex fallback,
\* then the patch handling of that path up to its return or its duration request
PrimaryEnds(outcome) ==
    /\ pc = "primary"
    /\ cur' = [cur EXCEPT !.primary = outcome]
    /\ components' = ExtractionResult[NM, outcome]
    /\ IF ExtractionTier[NM, outcome] = "query"
       THEN /\ requests' = Append(requests, [kind |-> "duration", medicine_string |-> NM])
            /\ pc' = "duration"
       ELSE /\ requests' = requests
            /\ pc' = "assemble"
    /\ UNCHANGED <<medicines, idx, processed_medicines, log, error>>
    /\ UNCHANGED httpVars
    /\ UNCHANGED textVars

PrimaryRaises == \E e \in ClientErrors : PrimaryEnds(Raises(e))

PrimaryReplies == \E r \in ReplyTexts : PrimaryEnds(Content(r))

\* the duration request ends: result['duration'] is set and the dict returned
DurationEnds ==
    \E outcome \in DurationOutcomes :
        /\ pc = "duration"
        /\ cur' = [cur EXCEPT !.duration = outcome]
        /\ components' = Put(components, kDuration, get_patch_duration_from_llm(outcome))
        /\ pc' = "assemble"
        /\ UNCHANGED <<medicines, idx, processed_medicines, requests, log, error>>
        /\ UNCHANGED httpVars
        /\ UNCHANGED textVars

\* extract_components has returned: the entry is built and appended
Assemble ==
    /\ pc = "assemble"
    /\ MissingKey(components) = <<>>
    /\ processed_medicines' = Append(processed_medicines,
                                     ProcessedMedicine(medicines[idx], components))
    /\ log' = Append(log, LogEntry(components))
    /\ idx' = idx + 1
    /\ pc' = "loop"
    /\ UNCHANGED <<medicines, components, cur, requests, error>>
    /\ UNCHANGED httpVars
    /\ UNCHANGED textVars

\* extract_components has returned a dict without a key the entry needs
AssembleRaises ==
    /\ pc = "assemble"
    /\ MissingKey(components) # <<>>
    /\ error' = [type |-> "KeyError", text |-> KeyErrorText(MissingKey(components))]
    /\ log' = Append(log, LogEntry(components))
    /\ pc' = "raised"
    /\ UNCHANGED <<medicines, idx, processed_medicines, components, cur, requests>>
    /\ UNCHANGED httpVars
    /\ UNCHANGED textVars

\* the loop is over: return processed_medicines
ReturnList ==
    /\ pc = "loop"
    /\ idx > Len(medicines)
    /\ pc' = "returned"
    /\ UNCHANGED <<medicines, idx, processed_medicines, components, cur, requests, log, error>>
    /\ UNCHANGED httpVars
    /\ UNCHANGED textVars

Next ==
    \/ CallExtract
    \/ PrimaryRaises
    \/ PrimaryReplies
    \/ DurationEnds
    \/ Assemble
    \/ AssembleRaises
    \/ ReturnList

Spec == Init /\ [][Next]_vars

(***************************************************************************)
(* The HTTP engine of main.py: extract_components behind lru_cache, and    *)
(* the handlers of GET /parse/{vpid} and POST /parse/batch, as they run    *)
(* once authentication and rate limiting have let the request through.     *)
(* Its extract_components is the one above without the patch handling; its *)
(* patterns, fence stripping, merge and regex fallback are the same text.  *)
(***************************************************************************)
\* maxsize of lru_cache: 1000 in main.py, scaled down so that a handful of
\* distinct strings fills the cache
lru_maxsize == 2

HttpBatches ==
    UNION {{[k \in 1..n |-> [NM |-> f[k], VPID |-> VpidOf(k)]] : f \in [1..n -> HttpNames]} :
           n \in 0..MaxBatch}

\* the detail of global_exception_handler
GenericDetail ==
    <<"A", "n", " ", "u", "n", "e", "x", "p", "e", "c", "t", "e", "d", " ",
     "e", "r", "r", "o", "r", " ", "o", "c", "c", "u", "r", "r", "e", "d">>

\* the cache holds an entry for key
CacheHit(c, key) == \E k \in 1..Len(c) : c[k].key = key

\* the cached result of key
CacheValue(c, key) == c[CHOOSE k \in 1..Len(c) : c[k].key = key].value

\* a cache whose hits do not refresh the entry: eviction in insertion order
CacheTouchFifo(c, key) == c

\* a hit: the entry of key becomes the most recently used
CacheTouch(c, key) ==
    <<[key |-> key, value |-> CacheValue(c, key)]>>
        \o SelectSeq(c, LAMBDA e : e.key # key)

\* a cache that keeps only what came of a successful request: the regex
\* fallback of a failed one is returned but not stored, so the next call for
\* the same string asks the model again
CacheStoreMergedOnly(c, key, value) ==
    IF value = HttpExtraction[key, Raises("APIConnectionError")] THEN c
    ELSE LET c2 == <<[key |-> key, value |-> value]>> \o c
         IN  IF Len(c2) > lru_maxsize THEN SubSeq(c2, 1, lru_maxsize) ELSE c2

\* a miss: the result is stored as the most recently used entry, and the least
\* recently used entry is dropped once the cache holds more than maxsize
CacheStore(c, key, value) ==
    LET c2 == <<[key |-> key, value |-> value]>> \o c
    IN  IF Len(c2) > lru_maxsize THEN SubSeq(c2, 1, lru_maxsize) ELSE c2

\* the body of main.py's extract_components: no patch handling
HttpComponents(medicine_string, outcome) == HttpExtraction[medicine_string, outcome]

\* one call parser.extract_components(medicine_string): a hit returns the
\* cached dict and sends nothing; a miss sends the request, which ends in
\* outcome, and stores what the body returns (sent: the requests the handler
\* has sent before this call)
CachedExtract(medicine_string, outcome, sent) ==
    /\ IF CacheHit(cache, medicine_string)
       THEN /\ outcome = NoOutcome
            /\ components' = CacheValue(cache, medicine_string)
            /\ cache' = CacheTouch(cache, medicine_string)
            /\ requests' = sent
       ELSE /\ outcome \in HttpOutcomes
            /\ components' = HttpComponents(medicine_string, outcome)
            /\ cache' = CacheStore(cache, medicine_string, components')
            /\ requests' = Append(sent,
                                  [kind |-> "extract", medicine_string |-> medicine_string])
    /\ cur' = [primary |-> outcome, duration |-> NoOutcome]
    /\ recency' = <<medicine_string>> \o SelectSeq(recency, LAMBDA s : s # medicine_string)

\* ParsedMedicine(VPID=..., original_name=..., name=..., strength=..., formulation=...)
ParsedMedicine(vpid, name, comps) ==
    (kVPID :> vpid) @@ (kOriginalName :> name) @@ (kName :> comps[kName])
    @@ (kStrength :> comps[kStrength]) @@ (kFormulation :> comps[kFormulation])

\* raise HTTPException(status_code=500, detail=str(e))
ErrorResponse(text) == [status |-> 500, detail |-> text, medicines |-> <<>>]

OkResponse(parsed) == [status |-> 200, detail |-> <<>>, medicines |-> parsed]

HttpInit ==
    /\ medicines = <<>>
    /\ idx = 1
    /\ processed_medicines = <<>>
    /\ pc = "idle"
    /\ components = <<>>
    /\ cur = [primary |-> NoOutcome, duration |-> NoOutcome]
    /\ requests = <<>>
    /\ log = <<>>
    /\ error = NoError
    /\ cache = <<>>
    /\ recency = <<>>
    /\ response = NoResponse
    /\ call = NoCall
    /\ result = NoResult

\* GET /parse/{vpid}?name=...: parse_single_medicine
ParseSingle ==
    \E name \in HttpNames, outcome \in HttpOutcomes \cup {NoOutcome} :
        /\ pc = "idle"
        /\ CachedExtract(name, outcome, <<>>)
        /\ response' = IF MissingKey(components') # <<>>
                       THEN ErrorResponse(KeyErrorText(MissingKey(components')))
                       ELSE OkResponse(<<ParsedMedicine(VpidOf(1), name, components')>>)
        /\ UNCHANGED <<medicines, idx, processed_medicines, pc, log, error>>
        /\ UNCHANGED textVars

\* POST /parse/batch: parse_medicine_list is entered with the request body
BatchStart ==
    \E body \in HttpBatches :
        /\ pc = "idle"
        /\ medicines' = body
        /\ idx' = 1
        /\ processed_medicines' = <<>>
        /\ pc' = "batch"
        /\ response' = NoResponse
        /\ requests' = <<>>
        /\ UNCHANGED <<components, cur, log, error, cache, recency>>
        /\ UNCHANGED textVars

\* one turn of the loop of parse_medicine_list: the item is extracted and
\* appended
BatchItem ==
    \E outcome \in HttpOutcomes \cup {NoOutcome} :
        /\ pc = "batch"
        /\ idx <= Len(medicines)
        /\ CachedExtract(NM, outcome, requests)
        /\ MissingKey(components') = <<>>
        /\ processed_medicines' =
               Append(processed_medicines,
                      ParsedMedicine(medicines[idx].VPID, NM, components'))
        /\ idx' = idx + 1
        /\ UNCHANGED <<medicines, pc, log, error, response>>
        /\ UNCHANGED textVars

\* one turn of the loop in which building ParsedMedicine raises: the handler's
\* except clause answers
BatchItemRaises ==
    \E outcome \in HttpOutcomes \cup {NoOutcome} :
        /\ pc = "batch"
        /\ idx <= Len(medicines)
        /\ CachedExtract(NM, outcome, requests)
        /\ MissingKey(components') # <<>>
        /\ response' = ErrorResponse(KeyErrorText(MissingKey(components')))
        /\ medicines' = <<>>
        /\ idx' = 1
        /\ processed_medicines' = <<>>
        /\ pc' = "idle"
        /\ UNCHANGED <<log, error>>
        /\ UNCHANGED textVars

\* the loop is over: return ParsedMedicineList(medicines=parsed_medicines)
BatchReturn ==
    /\ pc = "batch"
    /\ idx > Len(medicines)
    /\ response' = OkResponse(processed_medicines)
    /\ medicines' = <<>>
    /\ idx' = 1
    /\ processed_medicines' = <<>>
    /\ pc' = "idle"
    /\ UNCHANGED <<components, cur, requests, log, error, cache, recency>>
    /\ UNCHANGED textVars

HttpNext ==
    \/ ParseSingle
    \/ BatchStart
    \/ BatchItem
    \/ BatchItemRaises
    \/ BatchReturn

SpecHttp == HttpInit /\ [][HttpNext]_vars

(***************************************************************************)
(* The functions of the parser called on their own, each on an argument    *)
(* drawn from a bounded set of strings: extract_components_regex as        *)
(* main.py has it (the patterns and the name clean-up, no request),        *)
(* clean_duration, and the decoding of a reply at the head of the inner    *)
(* try block of extract_components.                                        *)
(***************************************************************************)
\* the longest argument of extract_components_regex, counted in tokens
MaxTokens == 4

\* the pieces the raw strings are put together from: a name, a blank, a
\* strength, the two halves of one, a percentage, and the slash of a ratio
StrengthTokens ==
    {<<"A">>, <<" ">>, <<"5", "m", "g">>, <<"5", "m">>, <<"g">>, <<"1", "%">>, <<"/">>}

\* words that end in a blank, a blank, and a formulation
NameTokens ==
    {<<"A", " ">>, <<"G", "e", "n", "e", "r", "i", "c", " ">>,
     <<"s", "t", "e", "r", "i", "l", "e", " ">>, <<" ">>, <<"5", "m", "g", " ">>,
     <<"c", "r", "e", "a", "m">>}

\* the tokens f[1], ..., f[n] put end to end
RECURSIVE Concat(_, _)
Concat(f, n) == IF n = 0 THEN <<>> ELSE Concat(f, n - 1) \o f[n]

\* the strings of at most MaxTokens tokens of T
TokenStrings(T) == UNION {{Concat(f, n) : f \in [1..n -> T]} : n \in 0..MaxTokens}

\* the raw strings extract_components_regex is called with
RegexInputs == TokenStrings(StrengthTokens) \cup TokenStrings(NameTokens)

\* the arguments of clean_duration: blanks, a number, blanks, a unit or some
\* other word, and text after it
DurationNumbers == {<<>>, <<"7">>, <<"2", "4">>, <<"3">>}

DurationBlanks == {<<>>, <<" ">>}

DurationWords ==
    {<<>>, <<"d", "a", "y">>, <<"d", "a", "y", "s">>, <<"h", "o", "u", "r">>,
     <<"h", "o", "u", "r", "s">>, <<"h", "r">>, <<"h", "r", "s">>,
     <<"H", "O", "U", "R", "S">>, <<"D", "a", "y", "s">>,
     <<"u", "n", "k", "n", "o", "w", "n">>, <<"a", "b", "c">>}

DurationTails ==
    {<<>>, <<" ">>, <<"s">>, <<" ", "t", "h", "r", "e", "e">>,
     <<" ", "p", "e", "r", " ", "h", "o", "u", "r">>}

DurationInputs ==
    {lead \o n \o sep \o w \o tail :
        lead \in DurationBlanks, n \in DurationNumbers, sep \in DurationBlanks,
        w \in DurationWords, tail \in DurationTails}

\* the closing fence
ClosingFence == <<GraveAccent, GraveAccent, GraveAccent>>

\* {}
rEmptyObject ==
    <<"{", "}">>

\* what stands between the fences of a reply
ReplyBodies == {rFull, rNameOnly, rEmptyObject, rProse}

ReplyBlanks == {<<>>, <<"\n">>}

\* a reply put together from its parts: blanks, the opening fence or nothing,
\* blanks, the body, blanks, the closing fence or nothing, blanks
ReplyOf(parts) ==
    parts.lead \o parts.open \o parts.before \o parts.body \o parts.after
        \o parts.close \o parts.trail

ReplyParts ==
    [lead : ReplyBlanks, open : {<<>>, Fence}, before : ReplyBlanks, body : ReplyBodies,
     after : ReplyBlanks, close : {<<>>, ClosingFence}, trail : ReplyBlanks]

\* the message contents the decoding is called with
ReplyInputs == {ReplyOf(parts) : parts \in ReplyParts}

Calls ==
    {[fn |-> "extract_components_regex", arg |-> s] : s \in RegexInputs}
    \cup {[fn |-> "clean_duration", arg |-> s] : s \in DurationInputs}
    \cup {[fn |-> "json.loads", arg |-> s] : s \in ReplyInputs}

TextInit ==
    /\ medicines = <<>>
    /\ idx = 1
    /\ processed_medicines = <<>>
    /\ pc = "idle"
    /\ components = <<>>
    /\ cur = [primary |-> NoOutcome, duration |-> NoOutcome]
    /\ requests = <<>>
    /\ log = <<>>
    /\ error = NoError
    /\ cache = <<>>
    /\ recency = <<>>
    /\ response = NoResponse
    /\ call \in Calls
    /\ result = NoResult

\* extract_components_regex(call.arg) returns its dict
CallRegex ==
    /\ call.fn = "extract_components_regex"
    /\ result = NoResult
    /\ result' = [kind |-> "dict", value |-> RegexComponents(call.arg)]
    /\ UNCHANGED <<medicines, idx, processed_medicines, pc, components, cur, requests, log,
                   error, cache, recency, response, call>>

\* clean_duration(call.arg) returns its string
CallCleanDuration ==
    /\ call.fn = "clean_duration"
    /\ result = NoResult
    /\ result' = [kind |-> "str", value |-> clean_duration(call.arg)]
    /\ UNCHANGED <<medicines, idx, processed_medicines, pc, components, cur, requests, log,
                   error, cache, recency, response, call>>

\* the head of the inner try block of extract_components on the message
\* content call.arg: the fence is stripped and json.loads returns or raises
CallJsonLoads ==
    /\ call.fn = "json.loads"
    /\ result = NoResult
    /\ result' = ParseReply(Content(call.arg))
    /\ UNCHANGED <<medicines, idx, processed_medicines, pc, components, cur, requests, log,
                   error, cache, recency, response, call>>

TextNext ==
    \/ CallRegex
    \/ CallCleanDuration
    \/ CallJsonLoads

SpecText == TextInit /\ [][TextNext]_vars

(***************************************************************************)
(* Properties of the batch engine (medicine_parser.py), checked under Spec *)
(*                                                                         *)
(* pc = "assemble" is the state in which an extract_components call has    *)
(* just returned: components is the dict it returned, cur.primary and      *)
(* cur.duration what its requests ended in.                                *)
(***************************************************************************)
Returned == pc = "assemble"

\* the items whose extract_components call has returned and been logged
Logged == 1..Len(log)

\* what the patterns say of each input, tabulated: whether it is a patch, its
\* explicit duration, and the first strength and formulation matches
InputFacts ==
    [ms \in RawNames \cup HttpNames |->
        [patch |-> Contains(Lower(ms), <<"p", "a", "t", "c", "h">>),
         explicit |-> ExplicitDurationOf(ms),
         strength |-> StrengthOf(ms),
         formulation |-> FormulationOf(ms)]]

\* what each outcome of the primary request is, tabulated: failed (the client
\* raised, or the reply is not JSON), merge (the reply decoded to a dict), and
\* the dict
OutcomeFacts ==
    [outcome \in PrimaryOutcomes \cup {NoOutcome} |->
        LET decoded == IF outcome.kind = "content"
                       THEN JsonLoads(StripFence(outcome.text))
                       ELSE JSONDecodeError
        IN  [failed |-> \/ outcome.kind \in ClientErrors
                        \/ outcome.kind = "content" /\ decoded = JSONDecodeError,
             merge |-> outcome.kind = "content" /\ decoded.kind = "dict",
             dict |-> decoded.value]]

PrimaryFailed(outcome) == OutcomeFacts[outcome].failed

\* the dict the model's reply decodes to (for a reply that takes the merge path)
ModelDict(outcome) == OutcomeFacts[outcome].dict

\* the model's structured response supplied a value for key
ModelSupplied(outcome, key) ==
    /\ OutcomeFacts[outcome].merge
    /\ key \in DOMAIN ModelDict(outcome)
    /\ ModelDict(outcome)[key] # <<>>

\* extract_components_regex of each input, for each end of its duration
\* request, tabulated
RegexResults ==
    [ms \in RawNames, outcome \in DurationOutcomes \cup {NoOutcome} |->
        extract_components_regex(ms, outcome)]

\* the duration requests sent so far
DurationRequests == {r \in 1..Len(requests) : requests[r].kind = "duration"}

sAspirin == <<"A", "s", "p", "i", "r", "i", "n">>

\* C1: whenever the primary request fails (exception, timeout, rate limit, or
\* a reply that is not JSON), the dict extract_components returns is exactly
\* the one extract_components_regex returns for the same raw string
C1_FallbackIsRegexResult ==
    Returned /\ PrimaryFailed(cur.primary) => components = RegexResults[NM, cur.duration]

\* C1 witness: a prose reply for the aspirin tablets was replaced by the regex
\* result, whose name is the cleaned one
C1_Witness ==
    /\ Returned
    /\ NM = nAspirin
    /\ cur.primary = Content(rProse)
    /\ components[kName] = sAspirin

\* C2: whatever the model does for each item, process_medicine_list does not
\* raise, and returns one entry per input, in input order, with the VPID and
\* the original name of its input; an item that fell back to the regex carries
\* the regex fields
C2_BatchSurvivesModelOutcomes ==
    /\ pc # "raised"
    /\ pc = "returned" =>
        /\ Len(processed_medicines) = Len(medicines)
        /\ \A k \in 1..Len(medicines) :
            /\ processed_medicines[k][kVPID] = medicines[k].VPID
            /\ processed_medicines[k][kOriginalName] = medicines[k].NM
            /\ log[k].path = "regex" =>
                /\ processed_medicines[k][kStrength] = InputFacts[medicines[k].NM].strength
                /\ processed_medicines[k][kFormulation]
                       = InputFacts[medicines[k].NM].formulation

\* C3: on the merge path strength and formulation are the model's value when
\* it is present and non-empty and the first pattern match in the raw string
\* otherwise, and name is the model's name unchanged
C3_MergeKeepsModelValues ==
    Returned /\ OutcomeFacts[cur.primary].merge =>
        LET m == ModelDict(cur.primary)
        IN  /\ components[kStrength] = IF ModelSupplied(cur.primary, kStrength)
                                       THEN m[kStrength] ELSE InputFacts[NM].strength
            /\ components[kFormulation] = IF ModelSupplied(cur.primary, kFormulation)
                                          THEN m[kFormulation]
                                          ELSE InputFacts[NM].formulation
            /\ kName \in DOMAIN m => kName \in DOMAIN components /\ components[kName] = m[kName]

\* C3 witness: for the aspirin tablets a reply's strength "9g" was kept although
\* the pattern matches "325mg", its formulation "gel" although the pattern
\* matches "tablets", and its name returned as it came
C3_Witness ==
    /\ Returned
    /\ NM = nAspirin
    /\ cur.primary = Content(rFull)
    /\ InputFacts[NM].strength = <<"3", "2", "5", "m", "g">>
    /\ components[kStrength] = <<"9", "g">>
    /\ components[kFormulation] = <<"g", "e", "l">>
    /\ components[kName] = <<"A">>

\* "<integer> days" or "<integer> hours"
IsCanonicalDuration(d) ==
    LET n == SpanClass(d, 1, Digits)
    IN  /\ n > 1
        /\ From(d, n) \in {<<" ", "d", "a", "y", "s">>, <<" ", "h", "o", "u", "r", "s">>}

\* C4: for a patch input the duration of the result is empty or canonical on
\* every path
C4_DurationCanonical ==
    \A k \in Logged :
        InputFacts[log[k].NM].patch /\ kDuration \in DOMAIN log[k].components =>
            \/ log[k].components[kDuration] = <<>>
            \/ IsCanonicalDuration(log[k].components[kDuration])

\* C5: the duration-only request is sent only for a patch whose text has no
\* explicit duration and whose structured response supplied none; an explicit
\* duration wins over a model-supplied one, a model-supplied one over a query
C5_DurationTiersInOrder ==
    /\ Cardinality(DurationRequests)
           = Cardinality({k \in Logged : log[k].queried})
             + (IF pc = "duration" \/ (Returned /\ cur.duration # NoOutcome) THEN 1 ELSE 0)
    /\ \A k \in Logged :
        log[k].queried => InputFacts[log[k].NM].patch /\ InputFacts[log[k].NM].explicit = <<>>
    /\ pc = "duration" =>
        /\ InputFacts[NM].patch
        /\ InputFacts[NM].explicit = <<>>
        /\ ~ModelSupplied(cur.primary, kDuration)
        /\ requests[Len(requests)] = [kind |-> "duration", medicine_string |-> NM]
    /\ Returned =>
        /\ cur.duration # NoOutcome =>
            /\ InputFacts[NM].patch
            /\ InputFacts[NM].explicit = <<>>
            /\ ~ModelSupplied(cur.primary, kDuration)
            /\ components[kDuration] = get_patch_duration_from_llm(cur.duration)
        /\ InputFacts[NM].patch /\ InputFacts[NM].explicit # <<>> =>
            /\ cur.duration = NoOutcome
            /\ components[kDuration] = clean_duration(InputFacts[NM].explicit)
        /\ InputFacts[NM].patch /\ InputFacts[NM].explicit = <<>>
           /\ ModelSupplied(cur.primary, kDuration) =>
            /\ cur.duration = NoOutcome
            /\ components[kDuration] = ModelDict(cur.primary)[kDuration]
        /\ ~InputFacts[NM].patch => cur.duration = NoOutcome

\* C5 witness: the fentanyl patch, whose text says "72 hour", with a reply that
\* carries a duration of its own: the result says "72 hours" and no duration
\* request was sent
C5_Witness ==
    /\ Returned
    /\ NM = nFentanyl
    /\ cur.primary = Content(rDuration)
    /\ ModelSupplied(cur.primary, kDuration)
    /\ components[kDuration] = <<"7", "2", " ", "h", "o", "u", "r", "s">>
    /\ DurationRequests = {}

\* C6: an entry of the output has the duration key exactly when its original
\* name contains "patch" in any case
C6_DurationKeyIffPatch ==
    \A k \in 1..Len(processed_medicines) :
        kDuration \in DOMAIN processed_medicines[k]
            <=> InputFacts[processed_medicines[k][kOriginalName]].patch

\* C6 witness: the aspirin tablets with a reply that carries a duration (the
\* returned dict has the key, the output entry has not), and the nicotine
\* patches after a failed model call (the entry has the key)
C6_Witness ==
    \E j, k \in 1..Len(processed_medicines) :
        /\ processed_medicines[j][kOriginalName] = nAspirin
        /\ kDuration \in DOMAIN log[j].components
        /\ kDuration \notin DOMAIN processed_medicines[j]
        /\ processed_medicines[k][kOriginalName] = nNicotine
        /\ log[k].path = "regex"
        /\ kDuration \in DOMAIN processed_medicines[k]

\* the items that went through extract_components_regex
FellBack == {k \in Logged : log[k].path = "regex"}

C8_ErrorBodyGeneric == response.status = 500 => response.detail = GenericDetail

CacheKeys == {cache[k].key : k \in 1..Len(cache)}

Min(a, b) == IF a <= b THEN a ELSE b

\* the lru_maxsize strings used most recently
MostRecent == {recency[k] : k \in 1..Min(Len(recency), lru_maxsize)}

\* C10: the cache never holds more than its capacity, holds one entry per
\* exact input string, and holds exactly the most recently used strings: what
\* an insertion beyond the capacity evicts is the least recently used entry
C10_CacheBoundedLRU ==
    /\ Len(cache) <= lru_maxsize
    /\ \A j, k \in 1..Len(cache) : cache[j].key = cache[k].key => j = k
    /\ CacheKeys = MostRecent
    /\ \A k \in 1..Len(cache) : cache[k].key = recency[k]

\* C10 witness: more strings were used than the cache holds, the cache is
\* full, and the two names that differ in case only are both cached, each with
\* its own result
C10_Witness ==
    /\ Len(recency) > lru_maxsize
    /\ Len(cache) = lru_maxsize
    /\ CacheHit(cache, nAspirin)
    /\ CacheHit(cache, nAspirinLower)
    /\ Get(CacheValue(cache, nAspirin), kName) = sAspirin
    /\ Get(CacheValue(cache, nAspirinLower), kName)
           = <<"g", "e", "n", "e", "r", "i", "c", " ", "a", "s", "p", "i", "r", "i", "n">>

\* a step in which a handler calls parser.extract_components: the GET handler
\* from start to end, or one turn of the loop of the batch handler; the string
\* it is called with is then the first of recency'
ExtractStep ==
    \/ pc = "idle" /\ pc' = "idle"
    \/ pc = "batch" /\ idx <= Len(medicines)

\* C16: what extract_components returns for a string is what the cache then
\* holds for it, the entries of the other strings keep their results, and a
\* call with a string among the lru_maxsize most recently used ones returns
\* the result cached for it and sends no request to the model, whether that
\* result came of a reply or was the regex fallback of a failed request
C16_CachedResultReused ==
    [][ExtractStep =>
          /\ CacheHit(cache', recency'[1])
          /\ CacheValue(cache', recency'[1]) = components'
          /\ \A k \in 1..Len(cache') :
                 cache'[k].key # recency'[1]
                     => /\ CacheHit(cache, cache'[k].key)
                        /\ CacheValue(cache, cache'[k].key) = cache'[k].value
          /\ recency'[1] \in MostRecent
                 => /\ CacheHit(cache, recency'[1])
                    /\ components' = CacheValue(cache, recency'[1])
                    /\ requests' = IF pc = "idle" THEN <<>> ELSE requests]_vars

\* C16 witness: the call just made for "Generic Aspirin 325mg tablets" was
\* answered from the cache without a request, and what it returned is the
\* regex fallback an earlier, failed request had left there
C16_Witness ==
    /\ recency # <<>>
    /\ recency[1] = nAspirin
    /\ cur.primary = NoOutcome
    /\ requests = <<>>
    /\ response.status = 200
    /\ components = HttpExtraction[nAspirin, Raises("APIConnectionError")]
    /\ components[kName] = sAspirin

(***************************************************************************)
(* Properties of the functions called on their own, checked under SpecText *)
(***************************************************************************)
\* extract_components_regex has returned its dict
RegexReturned == call.fn = "extract_components_regex" /\ result # NoResult

\* C11: the name the Pattern Extractor returns contains neither the strength
\* nor the formulation it returns, when these are not empty, also when the
\* matched text occurs several times or its removal joins the text around it
C11_NameFreeOfMatches ==
    RegexReturned =>
        /\ result.value[kStrength] # <<>>
               => ~Contains(result.value[kName], result.value[kStrength])
        /\ result.value[kFormulation] # <<>>
               => ~Contains(result.value[kName], result.value[kFormulation])

\* the word sterile between two whitespace characters, somewhere in s
HasSterileToken(s) ==
    \E i \in 1..Len(s) :
        /\ s[i] \in Whitespace
        /\ MatchLit(s, i + 1, <<"s", "t", "e", "r", "i", "l", "e">>) # 0
        /\ i + 8 <= Len(s)
        /\ s[i + 8] \in Whitespace

\* C12: the name the Pattern Extractor returns does not start with "Generic "
\* and does not contain the token sterile surrounded by whitespace
C12_NameWithoutGenericAndSterile ==
    RegexReturned =>
        /\ MatchLit(result.value[kName], 1, <<"G", "e", "n", "e", "r", "i", "c", " ">>) = 0
        /\ ~HasSterileToken(result.value[kName])

\* clean_duration has returned its string
CleanDurationReturned == call.fn = "clean_duration" /\ result # NoResult

\* the unit token the pattern of clean_duration matches in d, which is the
\* argument lower-cased and trimmed: what follows the digits and the blanks
\* (<<>> when the pattern does not match)
MatchedUnit(d) ==
    LET n == SpanClass(d, 1, Digits)
        w == SpanClass(d, n, Whitespace)
        e == MatchAltI(d, w, DurationUnits, <<>>)
    IN  IF n = 1 \/ e = 0 THEN <<>> ELSE SubSeq(d, w, e - 1)

\* the duration the matched unit token stands for: "<N> hours" when the token
\* contains hour or hr, "<N> days" when it is day or days, "" without a match
DurationOfMatchedUnit(duration) ==
    LET d == Strip(Lower(duration))
        number == SubSeq(d, 1, SpanClass(d, 1, Digits) - 1)
        unit == MatchedUnit(d)
    IN  IF unit = <<>> THEN <<>>
        ELSE IF Contains(unit, <<"h", "o", "u", "r">>) \/ Contains(unit, <<"h", "r">>)
             THEN number \o <<" ", "h", "o", "u", "r", "s">>
        ELSE number \o <<" ", "d", "a", "y", "s">>

\* the examples of the Duration Normalizer: argument, result
DurationExamples ==
    {<<<<"7", " ", "d", "a", "y", "s">>, <<"7", " ", "d", "a", "y", "s">>>>,
     <<<<"2", "4", " ", "H", "O", "U", "R", "S">>, <<"2", "4", " ", "h", "o", "u", "r", "s">>>>,
     <<<<"3", " ", "h", "r", "s">>, <<"3", " ", "h", "o", "u", "r", "s">>>>,
     <<<<"u", "n", "k", "n", "o", "w", "n">>, <<>>>>,
     <<<<"a", "b", "c">>, <<>>>>}

\* C13: clean_duration returns "<N> hours" exactly when the unit token it
\* matched contains hour or hr, "<N> days" when that token is day or days, and
\* "" when nothing matches, whatever text follows the unit; the five examples
\* of the Duration Normalizer come out as stated
C13_CleanDurationByMatchedUnit ==
    CleanDurationReturned =>
        /\ result.value = DurationOfMatchedUnit(call.arg)
        /\ \A ex \in DurationExamples : call.arg = ex[1] => result.value = ex[2]

\* the bare form with the unit drawn from the same set as the ratio form,
\* "%" included: (\d+(?:\.\d+)?)\s*(?:micrograms|mcg|mg|g|ml|%)
BareWithPercentAt(s, i) ==
    LET n == MatchNumber(s, i)
    IN  IF n = 0 THEN 0 ELSE MatchAltI(s, SpanClass(s, n, Whitespace), RatioUnits, <<>>)

\* a strength token at index i: the ratio form, else that bare form
StrengthTokenAt(s, i) == FirstNonZero(<<StrengthRatioAt(s, i), BareWithPercentAt(s, i)>>)

\* the leftmost strength token of s, verbatim, or "" when s has none
LeftmostStrengthToken(s) == Group0(s, Search(StrengthTokenAt, s, 1))

\* C14: the strength the Pattern Extractor returns is the leftmost strength
\* token of the raw string, ratio or bare, the unit being one of micrograms,
\* mcg, mg, g, ml and % in both forms, with the case of the source: a bare
\* percentage is a strength, and the strength is empty only without a token
C14_StrengthIsLeftmostToken ==
    RegexReturned => result.value[kStrength] = LeftmostStrengthToken(call.arg)

\* the inner try block has decoded the reply or left through its except clause
JsonLoadsReturned == call.fn = "json.loads" /\ result # NoResult

\* the replies that are a JSON object behind an opening fence, each with what
\* the object decodes to: the closing fence and the blanks around the fences
\* and the object are there or not
FencedObjects ==
    {<<ReplyOf(parts), JsonLoads(parts.body)>> :
        parts \in {q \in ReplyParts : q.open = Fence /\ q.body # rProse}}

\* C15: a reply that is a valid JSON object behind a leading fence, with or
\* without a closing fence and with or without whitespace around them, is
\* decoded to that object, so that extract_components takes the merge path
\* and not the regex fallback
C15_FencedObjectDecoded ==
    JsonLoadsReturned =>
        \A fo \in FencedObjects :
            call.arg = fo[1] => fo[2].kind = "dict" /\ result = fo[2]
====
